---- MODULE Spec2Model ----
(***************************************************************************)
(* anchorTransform: anchoring a transform to world space or to a driver    *)
(* over a frame range by keying per-frame local transform values.          *)
(*                                                                         *)
(* Two variants of the tool are modelled: "scripts" is                     *)
(* src/scripts/anchorTransform (commands.py, utils.py), "legacy" is        *)
(* src/__init__.py with src/utils.py.                                      *)
(*                                                                         *)
(* The host scene is an in-memory scene graph.  Matrices are the affine    *)
(* maps x -> a*x + b of the line modulo Modulus with a = +1 or -1 (a       *)
(* rotation of half a turn about Y mirrors the X axis): a finite,          *)
(* non-commutative group of rigid motions.  In the host's row-vector       *)
(* convention  m1 * m2  applies m1 first, and world = local * parentWorld. *)
(* Of the 9 channels translateX carries b and rotateY carries a; the other *)
(* 7 stay at their defaults (0 for translate/rotate, 1 for scale), and are *)
(* keyed, locked and connected like any other channel.                     *)
(*                                                                         *)
(* anchorTransform is called by the user on one transform, or by           *)
(* anchorSelection on each selected transform in turn.  The channel state  *)
(* (locks, connections, curves) of the transform of the current call is    *)
(* held in the variables locked, conn, parentConn and curves; that of the  *)
(* other transforms of the scene in the variable others.                   *)
(***************************************************************************)
EXTENDS Integers, Sequences, FiniteSets, TLC

\* ------------------------------------------------------------------ bounds

\* Frames of the timeline are 0..MaxFrame.
MaxFrame == 3

\* Translations are counted modulo Modulus.
Modulus == 3

\* An animation curve of a drawn scene has at most MaxKeys keys.
MaxKeys == 2

\* ----------------------------------------------------------- constants

\* src/scripts/anchorTransform/commands.py:9, src/__init__.py:56
TANGENTS == <<"auto", "clamped", "fast", "flat", "linear", "plateau",
              "slow", "spline", "stepnext">>

\* src/scripts/anchorTransform/utils.py:151, src/utils.py:133
ATTRIBUTES == <<"translate", "rotate", "scale">>

\* src/scripts/anchorTransform/utils.py:152, src/utils.py:134
CHANNELS == <<"X", "Y", "Z">>

\* Python's None: an absent driver, an unspecified time.
None == "None"

Range(s) == {s[k] : k \in DOMAIN s}

Frames == 0..MaxFrame

\* "{0}.{1}{2}".format(transform, attr, channel), the transform left out.
AllChannels == {a \o c : a \in Range(ATTRIBUTES), c \in Range(CHANNELS)}

\* The compound attribute of a channel.
AttributeOf(node) ==
    CHOOSE a \in Range(ATTRIBUTES) : \E c \in Range(CHANNELS) : node = a \o c

\* The X, Y or Z of a channel.
ChannelOf(node) ==
    CHOOSE c \in Range(CHANNELS) : \E a \in Range(ATTRIBUTES) : node = a \o c

\* ------------------------------------------------------------ matrices

\* OpenMaya.MMatrix(): the identity.
Identity == <<1, 0>>

MinusOne == Modulus - 1

Matrices == {<<a, b>> : a \in {1, MinusOne}, b \in 0..(Modulus - 1)}

\* MMatrix.__mul__: m1 first, then m2.
Mul(m1, m2) == <<(m1[1] * m2[1]) % Modulus, (m2[1] * m1[2] + m2[2]) % Modulus>>

\* The host's inverse matrix attributes (worldInverseMatrix,
\* parentInverseMatrix).
Inverse(m) == CHOOSE x \in Matrices : Mul(m, x) = Identity

\* ------------------------------------------------------------ variables

VARIABLES
    variant,              \* "scripts" or "legacy"
    entry,                \* the function the user calls: "anchorTransform"
                          \* or "anchorSelection"
    start, end,           \* the frame range handed to anchorTransform
    driver,               \* the driver node, or None
    currentTime,          \* the host's current-time cursor
    selection,            \* cmds.ls(sl=True, transforms=True)
    answer,               \* the user's answer to the confirm dialog (Ok: TRUE)
    faulty,               \* the transform whose host calls raise at frame
                          \* FaultFrame, or None
    parentWorld,          \* frame -> world matrix of the transforms' parent
    driverWorld,          \* frame -> world matrix of the driver
    rotatePivot,          \* the transforms' rotate pivot
    rest,                 \* channel -> its value while nothing drives it
    transform,            \* the transform in focus: the one of the current
                          \* (or the last) anchorTransform call
    locked,               \* channel -> lock flag                 (in focus)
    conn,                 \* channel -> "none" | "animCurve" | "other"  (")
    parentConn,           \* compound attribute -> has an incoming connection
    curves,               \* channel -> keys of its animation curve     (")
    others,               \* transform not in focus -> its locked, conn,
                          \* parentConn and curves
    curves0,              \* the curves as the current call found them
    pc,                   \* "idle" | "loop" | "done" | "raised" | "failed"
    i,                    \* the loop's frame
    anchorMatrix, driverInverseMatrix, invalidAttributes,
    log,                  \* set-key operations of the current call
    prevLog,              \* set-key operations of the call before
    calls,                \* anchorTransform calls begun (2: two or more)
    openChunks,           \* undo chunks open
    filterCalls,          \* filterCurve calls of the current call
    selPc,                \* anchorSelection: "idle" | "loop" | "declined"
                          \* | "returned" | "raised"
    transforms,           \* anchorSelection's list of transforms
    invalidChannels,      \* anchorSelection's list of invalid channels
    asked,                \* the lists the confirm dialog was displayed with
    place,                \* the place in transforms of the next to anchor
    anchored              \* the transforms anchorTransform was called on

\* What no function of the tool changes.
scene == <<variant, entry, start, end, driver, currentTime, selection, answer,
           faulty, parentWorld, driverWorld, rotatePivot, rest>>

\* The lock and connection flags of the transform in focus that no call
\* changes.
flags == <<locked, parentConn>>

\* The state of anchorSelection.
selectionVars == <<selPc, transforms, invalidChannels, asked, place, anchored>>

vars == <<variant, entry, start, end, driver, currentTime, selection, answer,
          faulty, parentWorld, driverWorld, rotatePivot, rest, transform,
          locked, conn, parentConn, curves, others, curves0, pc, i,
          anchorMatrix, driverInverseMatrix, invalidAttributes, log, prevLog,
          calls, openChunks, filterCalls, selPc, transforms, invalidChannels,
          asked, place, anchored>>

\* ---------------------------------------------------------- host scene

\* The value of a channel of an untouched transform.
Default(node) == IF node \in {"scaleX", "scaleY", "scaleZ"} THEN 1 ELSE 0

\* cmds.keyframe(animCurve, query=True, timeChange=True): the key times in
\* ascending order.
RECURSIVE SortedTimes(_)
SortedTimes(ts) ==
    IF ts = {} THEN <<>>
    ELSE LET t == CHOOSE x \in ts : \A y \in ts : x <= y
         IN <<t>> \o SortedTimes(ts \ {t})

KeyTimes(curve) == {k.t : k \in curve}

KeyAt(curve, t) == CHOOSE k \in curve : k.t = t

\* The host's evaluation of a curve at an integer frame: the key at the
\* frame; before the first key and after the last, the nearest key's value
\* (constant infinity); between two keys the earlier key's value is held.
EvalCurve(curve, t) ==
    LET ts == KeyTimes(curve)
        before == {x \in ts : x <= t}
    IN IF before # {}
       THEN KeyAt(curve, CHOOSE x \in before : \A y \in before : y <= x).v
       ELSE KeyAt(curve, CHOOSE x \in ts : \A y \in ts : x <= y).v

\* The value of a channel of the target at a frame: its curve's when it has
\* one, else the value it rests at (a non-curve connection feeds it that
\* value in the scenes drawn).
ChannelValue(cs, node, t) ==
    IF cs[node] = {} THEN rest[node] ELSE EvalCurve(cs[node], t)

\* The host composes the target's local matrix from its channel values and
\* its rotate pivot p: x -> a*(x - p) + p + translateX.
LocalMatrix(cs, t) ==
    LET a == IF (ChannelValue(cs, "rotateY", t) \div 180) % 2 = 0
             THEN 1 ELSE MinusOne
        tx == ChannelValue(cs, "translateX", t)
    IN <<a, (Modulus * Modulus + rotatePivot - a * rotatePivot + tx) % Modulus>>

\* cmds.getAttr("<node>.<matrixType>", time=time)
HostMatrix(cs, node, matrixType, time) ==
    LET world == IF node = "driver" THEN driverWorld[time]
                 ELSE Mul(LocalMatrix(cs, time), parentWorld[time])
    IN CASE matrixType = "worldMatrix" -> world
         [] matrixType = "worldInverseMatrix" -> Inverse(world)
         [] matrixType = "parentInverseMatrix" -> Inverse(parentWorld[time])

\* cmds.listConnections(node, type="animCurve", destination=False): the
\* animation curve feeding the channel (named after it), or nothing.
AnimInputs(cn, node) == IF cn[node] = "animCurve" THEN <<node>> ELSE <<>>

\* cmds.listConnections(node, destination=False)
AllInputs(cn, node) == IF cn[node] = "none" THEN <<>> ELSE <<cn[node]>>

\* cmds.setKeyframe(node, t=t, v=v, inTangentType=itt, outTangentType=ott):
\* the key at t is set (replacing a key already there).
SetKeyframe(curve, t, v, itt, ott) ==
    {k \in curve : k.t # t} \cup {[t |-> t, v |-> v, itt |-> itt, ott |-> ott]}

\* ------------------------------------------------------------- utils.py

\* InvalidOfAttribute with its test read as
\* "not animInputs and (allInputs or locked)": a locked channel with a curve
\* passes as valid.
InvalidOfAttributeLockUnderCurve(lk, cn, pcn, attr) ==
    LET nodes == [k \in DOMAIN CHANNELS |-> attr \o CHANNELS[k]]
        Bad(node) ==
            AnimInputs(cn, node) = <<>>
            /\ (AllInputs(cn, node) # <<>> \/ lk[node])
    IN IF pcn[attr] THEN nodes ELSE SelectSeq(nodes, Bad)

\* getInvalidAttributes, one pass of its outer loop.
InvalidOfAttribute(lk, cn, pcn, attr) ==
    LET nodes == [k \in DOMAIN CHANNELS |-> attr \o CHANNELS[k]]
        Bad(node) ==
            (AnimInputs(cn, node) = <<>> /\ AllInputs(cn, node) # <<>>)
            \/ lk[node]
    IN IF pcn[attr] THEN nodes ELSE SelectSeq(nodes, Bad)

RECURSIVE InvalidFrom(_, _, _, _)
InvalidFrom(lk, cn, pcn, k) ==
    IF k > Len(ATTRIBUTES) THEN <<>>
    ELSE InvalidOfAttribute(lk, cn, pcn, ATTRIBUTES[k])
         \o InvalidFrom(lk, cn, pcn, k + 1)

getInvalidAttributes(lk, cn, pcn) == InvalidFrom(lk, cn, pcn, 1)

\* Python's "not time": the time is None (not a number) or 0.
NotTime(time) == time \notin Int \/ time = 0

getMatrix(cs, node, time, matrixType) ==
    IF node = None THEN Identity
    ELSE HostMatrix(cs, node, matrixType,
                    IF NotTime(time) THEN currentTime ELSE time)

\* decomposeMatrix: the matrix is a rotation a about the origin followed by
\* the translation b; setting the rotate pivot with balance gives the
\* rotate pivot translation a*p - p, added to the translation.
decomposeMatrix(matrix, rotOrder, rotPivot) ==
    LET a == matrix[1]
        posOffset == a * rotPivot - rotPivot
        pos == (Modulus * Modulus + matrix[2] + posOffset) % Modulus
        halfTurns == IF a = 1 THEN 0 ELSE 1
    IN << <<pos, 0, 0>>, <<0, 180 * halfTurns, 0>>, <<1, 1, 1>> >>

RECURSIVE InTangentScan(_, _, _)
InTangentScan(curve, times, time) ==
    IF times = <<>> THEN "auto"
    ELSE IF Head(times) <= time THEN InTangentScan(curve, Tail(times), time)
    ELSE KeyAt(curve, Head(times)).itt

RECURSIVE InTangentScanFrom(_, _, _)
InTangentScanFrom(curve, times, time) ==
    IF times = <<>> THEN "auto"
    ELSE IF Head(times) < time THEN InTangentScanFrom(curve, Tail(times), time)
    ELSE KeyAt(curve, Head(times)).itt

\* getInTangent with "t < time" for "t <= time": a key at the time itself is
\* taken for the next key.
getInTangentFromTime(curve, time) ==
    InTangentScanFrom(curve, SortedTimes(KeyTimes(curve)), time)

getInTangent(curve, time) ==
    InTangentScan(curve, SortedTimes(KeyTimes(curve)), time)

RECURSIVE OutTangentScan(_, _, _)
OutTangentScan(curve, times, time) ==
    IF times = <<>> THEN "auto"
    ELSE IF Head(times) >= time THEN OutTangentScan(curve, Tail(times), time)
    ELSE KeyAt(curve, Head(times)).ott

getOutTangent(curve, time) ==
    OutTangentScan(curve, SortedTimes(KeyTimes(curve)), time)

\* RotationCurves with the loop over CHANNELS stopped after "X".
RotationCurvesOfX(cn, k) == AnimInputs(cn, "rotateX")

\* applyEulerFilter: the curves handed to cmds.filterCurve, none when no
\* rotate channel has a curve.
RECURSIVE RotationCurves(_, _)
RotationCurves(cn, k) ==
    IF k > Len(CHANNELS) THEN <<>>
    ELSE AnimInputs(cn, "rotate" \o CHANNELS[k]) \o RotationCurves(cn, k + 1)

\* ----------------------------------------------------- anchorTransform

\* range(start, end) in commands.py, range(start, end+1) in __init__.py:
\* the first frame the loop does not visit.
LoopStop == IF variant = "scripts" THEN end ELSE end + 1

differenceMatrix(drvInverse, driverMatrix) == Mul(drvInverse, driverMatrix)

localMatrix(drvInverse, driverMatrix, anchor, inverseMatrix) ==
    Mul(Mul(differenceMatrix(drvInverse, driverMatrix), anchor), inverseMatrix)

\* The decomposed channel values of frame f for a driver drv.
transformValues(cs, drv, drvInverse, anchor, f) ==
    decomposeMatrix(
        localMatrix(drvInverse,
                    getMatrix(cs, drv, f, "worldMatrix"),
                    anchor,
                    getMatrix(cs, transform, f, "parentInverseMatrix")),
        "xyz", rotatePivot)

\* The tangent types of the key set on a channel at frame f.
Tangents(curve, animInputs, f) ==
    LET linear == [inTangentType |-> "linear", outTangentType |-> "linear"]
    IN IF animInputs # <<>> /\ f = end
       THEN LET tangent == getOutTangent(curve, end)
            IN IF tangent \in Range(TANGENTS)
               THEN [linear EXCEPT !.outTangentType = tangent]
               ELSE linear
       ELSE IF animInputs # <<>> /\ f = start
       THEN LET tangent == getInTangent(curve, start)
            IN IF tangent \in Range(TANGENTS)
               THEN [linear EXCEPT !.inTangentType = tangent]
               ELSE linear
       ELSE linear

\* Skipped with the test on invalidAttributes left out.
SkippedNever(node, invalid) == FALSE

\* Whether the loop skips a channel.
Skipped(node, invalid) == node \in Range(invalid)

\* The inner loops over ATTRIBUTES and CHANNELS at frame f, from the n-th
\* of the 9 channels on; st holds the curves, the connections and the
\* set-key operations so far.
RECURSIVE KeyChannels(_, _, _, _, _)
KeyChannels(st, values, invalid, f, n) ==
    IF n > Len(ATTRIBUTES) * Len(CHANNELS) THEN st
    ELSE LET a == ((n - 1) \div Len(CHANNELS)) + 1
             j == ((n - 1) % Len(CHANNELS)) + 1
             node == ATTRIBUTES[a] \o CHANNELS[j]
             tg == Tangents(st.curves[node], AnimInputs(st.conn, node), f)
             op == [node |-> node, t |-> f, v |-> values[a][j],
                    itt |-> tg.inTangentType, ott |-> tg.outTangentType]
         IN IF Skipped(node, invalid)
            THEN KeyChannels(st, values, invalid, f, n + 1)
            ELSE KeyChannels(
                    [curves |-> [st.curves EXCEPT ![node] =
                                   SetKeyframe(@, f, op.v, op.itt, op.ott)],
                     conn |-> [st.conn EXCEPT ![node] = "animCurve"],
                     log |-> Append(st.log, op)],
                    values, invalid, f, n + 1)

\* The transforms of the scene.
Nodes == {"target", "second", "driver"}

\* The frame at which the host calls on the faulty transform raise (the
\* node is deleted mid-operation): the second frame of the loop.
FaultFrame == start + 1

\* The locked, conn, parentConn and curves of a transform.
ChannelsOf(t) ==
    IF t = transform
    THEN [locked |-> locked, conn |-> conn, parentConn |-> parentConn,
          curves |-> curves]
    ELSE others[t]

\* UndoChunkContext.__exit__ with "closeChunk" only when the block has not
\* raised.
ExitOnReturnOnly(chunks, raised) == IF raised THEN chunks ELSE chunks - 1

\* UndoChunkContext.__exit__: the number of open chunks after it, whether
\* the block has raised or not (the exception goes on either way).
Exit(chunks, raised) == chunks - 1

\* anchorTransform(t, driver, start, end) up to its loop: the undo chunk is
\* opened, the driver's inverse and the anchor are sampled at start, the
\* invalid channels are listed.  The transform comes into focus.
Enter(t) ==
    LET ch == ChannelsOf(t)
    IN /\ transform' = t
       /\ others' = [x \in Nodes \ {t} |-> ChannelsOf(x)]
       /\ locked' = ch.locked
       /\ conn' = ch.conn
       /\ parentConn' = ch.parentConn
       /\ curves' = ch.curves
       /\ curves0' = ch.curves
       /\ pc' = "loop"
       /\ openChunks' = openChunks + 1
       /\ driverInverseMatrix' =
             getMatrix(ch.curves, driver, start, "worldInverseMatrix")
       /\ anchorMatrix' = getMatrix(ch.curves, t, start, "worldMatrix")
       /\ invalidAttributes' =
             getInvalidAttributes(ch.locked, ch.conn, ch.parentConn)
       /\ i' = start
       /\ prevLog' = log
       /\ log' = <<>>
       /\ filterCalls' = <<>>
       /\ calls' = IF calls < 2 THEN calls + 1 ELSE calls
       /\ UNCHANGED scene

\* anchorTransform called by the user (the command line of the package
\* docstring).  A call after the first is made on the same transform and
\* starts from the scene the call before left.
Begin ==
    /\ entry = "anchorTransform"
    /\ pc \in {"idle", "done", "raised"}
    /\ Enter(transform)
    /\ UNCHANGED selectionVars

\* One pass of the loop over the frames.
Frame ==
    /\ pc = "loop"
    /\ i < LoopStop
    /\ ~(transform = faulty /\ i = FaultFrame)
    /\ LET values == transformValues(curves, driver, driverInverseMatrix,
                                     anchorMatrix, i)
           st == KeyChannels([curves |-> curves, conn |-> conn, log |-> log],
                             values, invalidAttributes, i, 1)
       IN /\ curves' = st.curves
          /\ conn' = st.conn
          /\ log' = st.log
    /\ i' = i + 1
    /\ UNCHANGED <<scene, flags, transform, others, curves0, pc, anchorMatrix,
                   driverInverseMatrix, invalidAttributes, prevLog, calls,
                   openChunks, filterCalls, selectionVars>>

\* A host call of the loop raises (utils.getMatrix at the top of the pass):
\* the with statement runs __exit__ and the exception leaves anchorTransform.
HostError ==
    /\ pc = "loop"
    /\ i < LoopStop
    /\ transform = faulty /\ i = FaultFrame
    /\ pc' = "failed"
    /\ openChunks' = Exit(openChunks, TRUE)
    /\ UNCHANGED <<scene, flags, transform, others, conn, curves, curves0, i,
                   anchorMatrix, driverInverseMatrix, invalidAttributes, log,
                   prevLog, calls, filterCalls, selectionVars>>

\* After the loop: utils.applyEulerFilter and the undo chunk's __exit__.
\* src/utils.py defines no applyEulerFilter, so the legacy variant raises
\* AttributeError there; __exit__ closes the chunk all the same.  The
\* filter turns rotation keys by whole turns, which leaves the values of
\* this model (angles up to whole turns) as they are.
Finish ==
    /\ pc = "loop"
    /\ i >= LoopStop
    /\ IF variant = "scripts"
       THEN /\ pc' = "done"
            /\ filterCalls' = IF RotationCurves(conn, 1) # <<>>
                              THEN <<RotationCurves(conn, 1)>> ELSE <<>>
       ELSE /\ pc' = "raised"
            /\ filterCalls' = filterCalls
    /\ openChunks' = Exit(openChunks, variant # "scripts")
    /\ UNCHANGED <<scene, flags, transform, others, conn, curves, curves0, i,
                   anchorMatrix, driverInverseMatrix, invalidAttributes, log,
                   prevLog, calls, selectionVars>>

\* "{0}.{1}{2}".format(transform, attr, channel)
Path(t, node) == t \o "." \o node

\* utils.getInvalidAttributes(transform), the transform in the names.
InvalidAttributesOf(t) ==
    LET ch == ChannelsOf(t)
        invalid == getInvalidAttributes(ch.locked, ch.conn, ch.parentConn)
    IN [k \in DOMAIN invalid |-> Path(t, invalid[k])]

\* anchorSelection's list with the driver left in.
WithDriver(sel, drv) == sel

\* [t for t in transforms if not t == driver]
WithoutDriver(sel, drv) == SelectSeq(sel, LAMBDA t : t # drv)

\* The loop over transforms that extends invalidChannels, from the k-th on.
RECURSIVE InvalidChannelsFrom(_, _)
InvalidChannelsFrom(ts, k) ==
    IF k > Len(ts) THEN <<>>
    ELSE InvalidAttributesOf(ts[k]) \o InvalidChannelsFrom(ts, k + 1)

\* Declined with the dialog's answer taken for Ok.
DeclinedNever(invalid, ok) == FALSE

\* "if invalidChannels: if not utils.displayConfirmDialog(...): return"
Declined(invalid, ok) == invalid # <<>> /\ ~ok

\* anchorSelection up to its loop over the transforms: the selection
\* without the driver, the invalid channels of all of them, the confirm
\* dialog when there are any, the return when the user declines.
Selection ==
    /\ entry = "anchorSelection"
    /\ selPc = "idle"
    /\ LET ts == WithoutDriver(selection, driver)
           invalid == InvalidChannelsFrom(ts, 1)
       IN /\ transforms' = ts
          /\ invalidChannels' = invalid
          /\ asked' = IF invalid # <<>> THEN Append(asked, invalid) ELSE asked
          /\ selPc' = IF Declined(invalid, answer) THEN "declined" ELSE "loop"
    /\ place' = 1
    /\ UNCHANGED <<scene, flags, transform, others, conn, curves, curves0, pc,
                   i, anchorMatrix, driverInverseMatrix, invalidAttributes,
                   log, prevLog, calls, openChunks, filterCalls, anchored>>

\* One pass of anchorSelection's loop: anchorTransform is called on the next
\* transform.
Anchor ==
    /\ entry = "anchorSelection"
    /\ selPc = "loop"
    /\ pc \in {"idle", "done"}
    /\ place <= Len(transforms)
    /\ Enter(transforms[place])
    /\ anchored' = Append(anchored, transforms[place])
    /\ place' = place + 1
    /\ UNCHANGED <<selPc, transforms, invalidChannels, asked>>

\* anchorSelection is left: after the last transform, or by the exception
\* that an anchorTransform call raised (nothing in anchorSelection catches
\* it).
Return ==
    /\ entry = "anchorSelection"
    /\ selPc = "loop"
    /\ IF pc \in {"raised", "failed"}
       THEN selPc' = "raised"
       ELSE /\ pc \in {"idle", "done"}
            /\ place > Len(transforms)
            /\ selPc' = "returned"
    /\ UNCHANGED <<scene, flags, transform, others, conn, curves, curves0, pc,
                   i, anchorMatrix, driverInverseMatrix, invalidAttributes,
                   log, prevLog, calls, openChunks, filterCalls, transforms,
                   invalidChannels, asked, place, anchored>>

Next ==
    \/ Begin
    \/ Frame
    \/ HostError
    \/ Finish
    \/ Selection
    \/ Anchor
    \/ Return

\* -------------------------------------------------------------- scenes

\* The motions drawn: the identity, a translation, a half turn.
Gens == {Identity, <<1, 1>>, <<MinusOne, 0>>}

\* A node that rests at the identity and jumps to g at frame k.
Step(g, k) == [f \in Frames |-> IF f >= k THEN g ELSE Identity]

Pivots == {0, 1}

\* Tangent types of the keys drawn, (in, out): "fixed" is a tangent type of
\* the host that TANGENTS does not list.
TanPairs == << <<"spline", "flat">>, <<"fixed", "spline">>, <<"flat", "fixed">> >>

Unanimated == [node \in AllChannels |-> {}]

AtRest == [node \in AllChannels |-> Default(node)]

\* The value of a drawn key of a channel at time t.
DrawnValue(node, t) ==
    CASE node = "translateX" -> t % Modulus
      [] node = "rotateY" -> 180 * (t % 2)
      [] OTHER -> Default(node)

\* A drawn curve: keys at the times ks, the n-th key (in time order) with
\* the tangent types TanPairs[((n + r) % 3) + 1].
DrawnCurve(node, ks, r) ==
    LET times == SortedTimes(ks)
    IN {[t |-> times[n], v |-> DrawnValue(node, times[n]),
         itt |-> TanPairs[((n + r) % Len(TanPairs)) + 1][1],
         ott |-> TanPairs[((n + r) % Len(TanPairs)) + 1][2]] : n \in DOMAIN times}

\* Before the first call.
InitCall ==
    /\ pc = "idle"
    /\ i = 0
    /\ anchorMatrix = Identity
    /\ driverInverseMatrix = Identity
    /\ invalidAttributes = <<>>
    /\ log = <<>>
    /\ prevLog = <<>>
    /\ calls = 0
    /\ openChunks = 0
    /\ filterCalls = <<>>
    /\ curves0 = curves
    /\ selPc = "idle"
    /\ transforms = <<>>
    /\ invalidChannels = <<>>
    /\ asked = <<>>
    /\ place = 1
    /\ anchored = <<>>

\* The channels of a transform that is not animated, with every channel
\* open.
OpenChannels ==
    [locked |-> [node \in AllChannels |-> FALSE],
     conn |-> [node \in AllChannels |-> "none"],
     parentConn |-> [attr \in Range(ATTRIBUTES) |-> FALSE],
     curves |-> Unanimated]

\* The channels of an unanimated transform whose translateX is locked.
LockedChannels ==
    [OpenChannels EXCEPT !.locked = [node \in AllChannels |->
                                       node = "translateX"]]

\* anchorTransform is called by the user on the target; the other
\* transforms of the scene are left alone and no host call raises.
InitDirect ==
    /\ entry = "anchorTransform"
    /\ transform = "target"
    /\ selection = <<"target">>
    /\ answer = TRUE
    /\ faulty = None
    /\ others = [x \in Nodes \ {"target"} |-> OpenChannels]

\* The callers hand anchorTransform a range with start < end (ui.py:144).
InitRange ==
    /\ variant \in {"scripts", "legacy"}
    /\ start \in Frames
    /\ end \in Frames
    /\ start < end

\* Scenes of moving nodes: an unanimated target with every channel open,
\* resting at the identity or translated and turned, under a parent that
\* moves at some frame, with no driver or a driver that moves at that
\* frame.
InitMotion ==
    /\ InitRange
    /\ InitDirect
    /\ currentTime \in {0, MaxFrame}
    /\ \E k \in Frames, gP \in Gens \ {Identity}, gD \in Gens \ {Identity} :
          /\ parentWorld = Step(gP, k)
          /\ driver \in {None, "driver"}
          /\ driverWorld = IF driver = None THEN Step(Identity, 0) ELSE Step(gD, k)
    /\ rotatePivot \in Pivots
    /\ rest \in {AtRest, [AtRest EXCEPT !["translateX"] = 1, !["rotateY"] = 180]}
    /\ locked = [node \in AllChannels |-> FALSE]
    /\ conn = [node \in AllChannels |-> "none"]
    /\ parentConn = [attr \in Range(ATTRIBUTES) |-> FALSE]
    /\ curves = Unanimated

\* Scenes of locked and connected channels: the X and Y channel of every
\* attribute locked or not and fed by nothing, a curve or another node, the
\* Z channel open, fed by another node or locked with a curve, at most one
\* compound attribute connected (its connection drives its 3 channels, which
\* then have no connection of their own).
InitFlags ==
    /\ InitRange
    /\ InitDirect
    /\ start = 1
    /\ end = MaxFrame
    /\ currentTime = 0
    /\ parentWorld = Step(<<1, 1>>, 2)
    /\ driver = None
    /\ driverWorld = Step(Identity, 0)
    /\ rotatePivot = 0
    /\ rest = AtRest
    /\ \E lk \in [Range(CHANNELS) -> BOOLEAN],
          cn \in [Range(CHANNELS) -> {"none", "animCurve", "other"}] :
          /\ <<lk["Z"], cn["Z"]>> \in {<<FALSE, "none">>, <<FALSE, "other">>,
                                       <<TRUE, "animCurve">>}
          /\ locked = [node \in AllChannels |-> lk[ChannelOf(node)]]
          /\ \E pcn \in [Range(ATTRIBUTES) -> BOOLEAN] :
                /\ Cardinality({a \in Range(ATTRIBUTES) : pcn[a]}) <= 1
                /\ parentConn = pcn
                /\ conn = [node \in AllChannels |->
                             IF pcn[AttributeOf(node)] THEN "none"
                             ELSE cn[ChannelOf(node)]]
    /\ curves = [node \in AllChannels |->
                   IF conn[node] = "animCurve"
                   THEN DrawnCurve(node, {0}, 0) ELSE {}]

\* Scenes of an animated target: one channel with a curve of 1..MaxKeys
\* keys, every channel open.
InitCurves ==
    /\ InitRange
    /\ InitDirect
    /\ currentTime = MaxFrame
    /\ parentWorld = Step(<<1, 1>>, 1)
    /\ driver = None
    /\ driverWorld = Step(Identity, 0)
    /\ rotatePivot = 1
    /\ rest = AtRest
    /\ locked = [node \in AllChannels |-> FALSE]
    /\ parentConn = [attr \in Range(ATTRIBUTES) |-> FALSE]
    /\ \E animated \in {"translateX", "rotateY"},
          ks \in {s \in SUBSET Frames : Cardinality(s) \in 1..MaxKeys},
          r \in 1..Len(TanPairs) :
          /\ conn = [node \in AllChannels |->
                       IF node = animated THEN "animCurve" ELSE "none"]
          /\ curves = [node \in AllChannels |->
                         IF node = animated THEN DrawnCurve(node, ks, r) ELSE {}]

\* The sequences without repetition of the elements of a set.
RECURSIVE Orders(_)
Orders(S) ==
    IF S = {} THEN {<<>>}
    ELSE UNION {{<<x>> \o o : o \in Orders(S \ {x})} : x \in S}

\* Scenes of a selection: anchorSelection is called with some of the
\* unanimated transforms of the scene selected in some order, with no
\* driver or with the driver (which may be selected as well), each
\* transform with every channel open or with a locked channel; the host
\* may raise on one of the selected transforms, and the user answers the
\* confirm dialog with Ok or Cancel.
InitSelection ==
    /\ InitRange
    /\ entry = "anchorSelection"
    /\ start = 1
    /\ end = MaxFrame
    /\ currentTime = 0
    /\ parentWorld = Step(<<1, 1>>, 2)
    /\ driver \in {None, "driver"}
    /\ driverWorld = IF driver = None THEN Step(Identity, 0)
                     ELSE Step(<<1, 1>>, 2)
    /\ rotatePivot = 0
    /\ rest = AtRest
    /\ \E S \in SUBSET (Nodes \ (IF driver = None THEN {"driver"} ELSE {})) :
          selection \in Orders(S)
    /\ answer \in BOOLEAN
    /\ faulty \in {None} \cup (Range(selection) \ {"driver"})
    /\ transform = "target"
    /\ \E ch \in [Nodes -> {OpenChannels, LockedChannels}] :
          /\ driver = None => ch["driver"] = OpenChannels
          /\ locked = ch["target"].locked
          /\ conn = ch["target"].conn
          /\ parentConn = ch["target"].parentConn
          /\ curves = ch["target"].curves
          /\ others = [x \in Nodes \ {"target"} |-> ch[x]]

Init == (InitMotion \/ InitFlags \/ InitCurves \/ InitSelection) /\ InitCall

Spec == Init /\ [][Next]_vars

\* ---------------------------------------------------------- properties

\* The call has left its loop after the last frame, and its undo chunk
\* (normally, or with the legacy variant's AttributeError after the last
\* key).
Finished == pc \in {"done", "raised"}

\* The frames the loop has visited so far.
Iterated == IF pc = "idle" THEN {} ELSE start..(i - 1)

AllValid == invalidAttributes = <<>>

\* The target's world matrix at frame f in the scene cs.
World(cs, f) == HostMatrix(cs, transform, "worldMatrix", f)

\* The (channel, frame, value) of the set-key operations of a log.
KeyValues(l) == {<<l[n].node, l[n].t, l[n].v>> : n \in DOMAIN l}

Ops(l) == Range(l)

\* C1 (as claimed, for start >= 1): after anchorTransform(transform, None,
\* start, end) of commands.py with all 9 channels valid, the target's world
\* matrix at every frame of start..end, end included, is the world matrix
\* the target had at start.
C1_WorldAnchorWholeRange ==
    (Finished /\ calls = 1 /\ variant = "scripts" /\ driver = None
       /\ AllValid /\ start >= 1)
    => \A f \in start..end : World(curves, f) = World(curves0, start)

\* C2 (as claimed, for start >= 1): after anchorTransform with a driver and
\* all 9 channels valid, at every frame f at which keys were set
\* targetWorld(f) * driverWorldInverse(f) equals
\* targetWorld(start) * driverWorldInverse(start).
C2_StationaryRelativeToDriver ==
    (Finished /\ calls = 1 /\ driver # None /\ AllValid /\ start >= 1)
    => \A f \in Iterated :
          Mul(World(curves, f), Inverse(driverWorld[f]))
          = Mul(World(curves0, start), Inverse(driverWorld[start]))

\* C3 (as claimed): anchorTransform of commands.py issues a set-key
\* operation for every valid channel at every frame of start..end, end
\* included, and at no frame outside.
C3_InclusiveRange ==
    (Finished /\ variant = "scripts")
    => /\ \A node \in AllChannels \ Range(invalidAttributes) :
             \A f \in start..end :
                \E op \in Ops(log) : op.node = node /\ op.t = f
       /\ \A op \in Ops(log) : op.t \in start..end

\* The value decomposeMatrix gives a channel.
ValueOf(values, node) ==
    LET a == CHOOSE k \in DOMAIN ATTRIBUTES :
                \E c \in Range(CHANNELS) : node = ATTRIBUTES[k] \o c
        j == CHOOSE k \in DOMAIN CHANNELS : node = ATTRIBUTES[a] \o CHANNELS[k]
    IN values[a][j]

\* C4 (as claimed): with no driver, for every start (0 included) and every
\* position of the current-time cursor, the values keyed at frame start are
\* those of the target's original local transform at start.
C4_StartPoseKept ==
    (Finished /\ calls = 1 /\ driver = None)
    => \A op \in Ops(log) :
          op.t = start
          => op.v = ValueOf(decomposeMatrix(LocalMatrix(curves0, start),
                                            "xyz", rotatePivot), op.node)

\* The driver's world matrix is the same at every frame of the range.
DriverStaticInRange ==
    \A f, g \in start..end : driverWorld[f] = driverWorld[g]

\* The (channel, frame, value) the call sets when it is made with
\* driver = None on the scene it found.
WorldAnchorKeyValues ==
    {<<node, f, ValueOf(transformValues(
                          curves0, None,
                          getMatrix(curves0, None, start, "worldInverseMatrix"),
                          getMatrix(curves0, transform, start, "worldMatrix"),
                          f), node)>> :
        node \in AllChannels \ Range(invalidAttributes), f \in Iterated}

\* C5 (as claimed): when the driver's world matrix is the same at every
\* frame of the range, anchorTransform with that driver issues the same
\* set-key operations (channel, frame, value) as with driver = None.
C5_StaticDriverIsWorldAnchor ==
    (Finished /\ calls = 1 /\ driver # None /\ DriverStaticInRange)
    => KeyValues(log) = WorldAnchorKeyValues

\* C6 (as claimed): a call of anchorTransform on the scene the call before
\* produced, with the same target, driver and range, sets every key to the
\* value that call set, for every start and every cursor position.
C6_Idempotent ==
    (Finished /\ calls = 2 /\ entry = "anchorTransform")
    => KeyValues(log) = KeyValues(prevLog)

\* The frames at which the current call has keyed a channel.
KeyedFrames(node) == {op.t : op \in {o \in Ops(log) : o.node = node}}

\* C7: the invalid channels are fixed for the whole call: no set-key
\* operation is issued on a channel of invalidAttributes, every channel is
\* keyed at every frame the loop has visited or at none (the valid ones at
\* every frame, also those whose curve the loop itself created), and a
\* connected compound attribute leaves its 3 channels unkeyed.
C7_ValidityFixed ==
    /\ \A op \in Ops(log) : op.node \notin Range(invalidAttributes)
    /\ \A node \in AllChannels :
          KeyedFrames(node) =
             IF node \in Range(invalidAttributes) THEN {} ELSE Iterated
    /\ pc # "idle" =>
          \A node \in AllChannels :
             parentConn[AttributeOf(node)] => KeyedFrames(node) = {}

\* C7's case: the call is over, a compound attribute is connected, an
\* unanimated channel was keyed at two frames or more (the loop created its
\* curve) and a locked channel was never keyed.
C7_Witness ==
    /\ Finished
    /\ \E a \in Range(ATTRIBUTES) : parentConn[a]
    /\ \E node \in AllChannels :
          /\ curves0[node] = {}
          /\ conn[node] = "animCurve"
          /\ Cardinality(KeyedFrames(node)) >= 2
    /\ \E node \in AllChannels :
          /\ locked[node]
          /\ ~parentConn[AttributeOf(node)]
          /\ KeyedFrames(node) = {}

\* C8: getInvalidAttributes returns exactly the channels whose compound
\* attribute has an incoming connection, or that are locked, or that have
\* an incoming connection that is not an animation curve's.
C8_InvalidAttributes ==
    pc # "idle" =>
       /\ Range(invalidAttributes) =
             {node \in AllChannels :
                 \/ parentConn[AttributeOf(node)]
                 \/ locked[node]
                 \/ conn[node] = "other"}
       /\ Cardinality(Range(invalidAttributes)) = Len(invalidAttributes)

\* C8's case: a locked channel with a curve and a channel fed by another
\* node are returned, an unlocked channel with a curve is not.
C8_Witness ==
    /\ Finished
    /\ \E n1, n2, n3 \in AllChannels :
          /\ locked[n1] /\ curves0[n1] # {} /\ n1 \in Range(invalidAttributes)
          /\ ~locked[n2] /\ conn[n2] = "other" /\ n2 \in Range(invalidAttributes)
          /\ ~locked[n3] /\ curves0[n3] # {} /\ n3 \notin Range(invalidAttributes)
          /\ \A n \in {n1, n2, n3} : ~parentConn[AttributeOf(n)]

\* The key of a curve nearest after a time.
NextKey(curve, time) ==
    CHOOSE k \in curve :
       /\ k.t > time
       /\ \A o \in curve : o.t > time => k.t <= o.t

\* The in-tangent type the key at start is to carry on a channel whose
\* curve had a key after start when the call began.
InheritedInTangent(node) ==
    IF NextKey(curves0[node], start).itt \in Range(TANGENTS)
    THEN NextKey(curves0[node], start).itt
    ELSE "linear"

\* C9: once the loop has passed frame start, every valid channel whose
\* curve had a key after start when the call began has been keyed at start,
\* and the key set there carries the in-tangent type of the nearest such
\* key when TANGENTS lists it, and "linear" when not.
C9_InTangentInherited ==
    \A node \in AllChannels \ Range(invalidAttributes) :
       (start \in Iterated /\ \E k \in curves0[node] : k.t > start)
       => /\ \E op \in Ops(log) : op.node = node /\ op.t = start
          /\ \A op \in Ops(log) :
                (op.node = node /\ op.t = start)
                => op.itt = InheritedInTangent(node)

\* C9's case: the call is over and the key at start has inherited a type
\* other than linear from the nearer of two later keys of different types.
C9_Witness ==
    /\ Finished /\ calls = 1
    /\ \E op \in Ops(log) :
          /\ op.t = start
          /\ op.itt # "linear"
          /\ \E k1, k2 \in curves0[op.node] :
                /\ start < k1.t /\ k1.t < k2.t
                /\ k1.itt = op.itt /\ k2.itt # op.itt

\* The key of a curve nearest before a time.
PreviousKey(curve, time) ==
    CHOOSE k \in curve :
       /\ k.t < time
       /\ \A o \in curve : o.t < time => o.t <= k.t

\* C10 (as claimed): a key set at frame end on a channel that had a curve
\* before the call carries the out-tangent type of the
\* curve's nearest key before end when TANGENTS lists that type; the
\* curve's nearest key before end is read here either way, on the curve as
\* it was before the call or as it is when the key at end is set.
C10_OutTangentInherited ==
    pc # "idle" =>
       \A op \in Ops(log) :
          (op.t = end /\ curves0[op.node] # {})
          => \/ /\ \E k \in curves0[op.node] : k.t < end
                /\ PreviousKey(curves0[op.node], end).ott \in Range(TANGENTS)
                /\ op.ott = PreviousKey(curves0[op.node], end).ott
             \/ /\ \E k \in curves[op.node] : k.t < end
                /\ PreviousKey(curves[op.node], end).ott \in Range(TANGENTS)
                /\ op.ott = PreviousKey(curves[op.node], end).ott
             \/ /\ \A k \in curves0[op.node] :
                      k.t < end => k.ott \notin Range(TANGENTS)
                /\ \A k \in curves[op.node] :
                      k.t < end => k.ott \notin Range(TANGENTS)

\* The rotate channels of the transform in focus that an animation curve
\* feeds.
RotateCurveChannels ==
    {node \in {"rotateX", "rotateY", "rotateZ"} : conn[node] = "animCurve"}

\* While the filter of the current call has run: the call is the scripts
\* variant's and is over, the loop has set the keys of every frame it
\* visits on every valid channel, and the filter ran once, on all the
\* curves of the rotate channels together.
C11_FilterAfterKeys ==
    filterCalls # <<>> =>
       /\ variant = "scripts"
       /\ pc = "done"
       /\ i = LoopStop
       /\ \A node \in AllChannels \ Range(invalidAttributes) :
             KeyedFrames(node) = start..(LoopStop - 1)
       /\ Len(filterCalls) = 1
       /\ Len(filterCalls[1]) = Cardinality(RotateCurveChannels)
       /\ Range(filterCalls[1]) = RotateCurveChannels

\* C11: in the scripts variant the euler filter runs only after the last
\* set-key operation of the loop, at most once per call, in one filterCurve
\* call that receives every animation curve of rotateX, rotateY and rotateZ
\* together (and it does run when there is such a curve and the call ends);
\* once it has run, the call sets no key.
C11_EulerFilterOrdering ==
    /\ [](C11_FilterAfterKeys
          /\ ((variant = "scripts" /\ pc = "done" /\ RotateCurveChannels # {})
                => filterCalls # <<>>))
    /\ [][(filterCalls # <<>> /\ filterCalls' = filterCalls) => log' = log]_vars

\* C11's case: a scripts call is over, it has set keys at two frames or
\* more, and its one filter call received the curves of the 3 rotate
\* channels.
C11_Witness ==
    /\ variant = "scripts"
    /\ pc = "done"
    /\ Len(filterCalls) = 1
    /\ Len(filterCalls[1]) = 3
    /\ \E op1, op2 \in Ops(log) : op1.t < op2.t

\* A transform has an invalid channel: one whose compound attribute is
\* connected, that is locked, or that another node than a curve feeds.
HasInvalidChannel(t) ==
    \E node \in AllChannels :
       \/ ChannelsOf(t).parentConn[AttributeOf(node)]
       \/ ChannelsOf(t).locked[node]
       \/ ChannelsOf(t).conn[node] = "other"

\* No anchorTransform call has begun and no transform has a key.
NothingMutated ==
    /\ calls = 0
    /\ pc = "idle"
    /\ anchored = <<>>
    /\ openChunks = 0
    /\ log = <<>>
    /\ filterCalls = <<>>
    /\ \A t \in Nodes : ChannelsOf(t).curves = Unanimated

\* C12: anchorSelection displays the confirm dialog at most once, and (once
\* it is past its checks) exactly when a selected transform other than the
\* driver has an invalid channel; when the dialog was displayed and the
\* answer is Cancel, anchorSelection has returned and no anchorTransform
\* call was made, no undo chunk opened, no key set and no curve filtered.
C12_PreflightConfirmation ==
    /\ Len(asked) <= 1
    /\ asked # <<>> =>
          \E t \in Range(selection) \ {driver} : HasInvalidChannel(t)
    /\ (selPc # "idle" /\ asked = <<>>) =>
          \A t \in Range(selection) \ {driver} : ~HasInvalidChannel(t)
    /\ (asked # <<>> /\ ~answer) => (selPc = "declined" /\ NothingMutated)
    /\ selPc = "declined" => (asked # <<>> /\ ~answer)

\* C12's case: two transforms or more are to be anchored, one of them has
\* an invalid channel and another has none, the dialog was displayed and
\* the user declined.
C12_Witness ==
    /\ selPc = "declined"
    /\ Len(asked) = 1
    /\ Len(transforms) >= 2
    /\ \E t1, t2 \in Range(transforms) :
          HasInvalidChannel(t1) /\ ~HasInvalidChannel(t2)

\* An anchorTransform call of anchorSelection has failed with a host error.
HostErrorSeen == pc = "failed"

\* C13 (as claimed): when anchorSelection has proceeded and the anchor
\* operation of one transform has failed with a host error, anchorTransform
\* has been called, once anchorSelection is over, on every transform of its
\* list, those after the failing one included.
C13_LaterNodesAttempted ==
    (variant = "scripts" /\ selPc \in {"returned", "raised"} /\ HostErrorSeen)
    => \A k \in DOMAIN transforms : transforms[k] \in Range(anchored)

\* The place of a transform in the selection.
PlaceOf(t) == CHOOSE k \in DOMAIN selection : selection[k] = t

\* C14: anchorSelection never calls anchorTransform on the driver and lists
\* no channel of the driver among the invalid channels, whether the driver
\* is selected or not; no transform is anchored twice, the transforms are
\* anchored in the order of the selection, and when anchorSelection returns
\* from its loop every selected transform but the driver has been anchored.
C14_DriverNeverTarget ==
    /\ driver \notin Range(anchored)
    /\ (driver # None /\ pc # "idle") => transform # driver
    /\ \A k \in DOMAIN invalidChannels, node \in AllChannels :
          invalidChannels[k] # Path(driver, node)
    /\ \A k \in DOMAIN anchored : anchored[k] \in Range(selection)
    /\ \A j, k \in DOMAIN anchored :
          j < k => PlaceOf(anchored[j]) < PlaceOf(anchored[k])
    /\ selPc = "returned" => Range(anchored) = Range(selection) \ {driver}

\* C14's case: the driver is selected before two other transforms and has
\* an invalid channel, no dialog was displayed, and anchorSelection has
\* returned after anchoring the two others.
C14_Witness ==
    /\ selPc = "returned"
    /\ driver # None
    /\ Len(selection) = 3
    /\ selection[1] = driver
    /\ HasInvalidChannel(driver)
    /\ asked = <<>>
    /\ Len(anchored) = 2

\* An undo chunk is open exactly while an anchorTransform call is in its
\* with block, so chunks are never nested and none is left open by a call
\* that returned or raised; a call that raised has not let anchorSelection
\* return from its loop.
C15_ChunkState ==
    /\ openChunks \in {0, 1}
    /\ openChunks = 1 <=> pc = "loop"
    /\ selPc = "returned" => pc \notin {"raised", "failed"}

\* A step that sets a key starts and ends with the chunk open, a step that
\* filters starts with it open; the chunk is opened only by the step that
\* enters a call and closed only by the step that leaves it, and each of
\* them does so once.
C15_ChunkStep ==
    /\ (log' # log /\ log' # <<>>) => (openChunks = 1 /\ openChunks' = 1)
    /\ (filterCalls' # filterCalls /\ filterCalls' # <<>>) => openChunks = 1
    /\ (pc # "loop" /\ pc' = "loop") => openChunks' = openChunks + 1
    /\ (pc = "loop" /\ pc' # "loop") => openChunks' = openChunks - 1
    /\ ((pc = "loop") <=> (pc' = "loop")) => openChunks' = openChunks

\* C15: every set-key and filter of an anchorTransform call happens between
\* the call's one openChunk and its one closeChunk; the chunk is closed on
\* every way out of the call, a host call raising in the loop included (and
\* the exception goes on), so that outside a call no chunk is open and the
\* chunks of different transforms are never nested.
C15_UndoGrouping == []C15_ChunkState /\ [][C15_ChunkStep]_vars

\* C15's case: anchorSelection has anchored one transform, the call on the
\* next has set keys and then failed with a host error, and no chunk is
\* open.
C15_Witness ==
    /\ pc = "failed"
    /\ selPc = "raised"
    /\ Len(anchored) = 2
    /\ log # <<>>
    /\ prevLog # <<>>
    /\ openChunks = 0

\* The matrix attributes getMatrix is asked for.
MatrixTypes == {"worldMatrix", "worldInverseMatrix", "parentInverseMatrix"}

\* C16 (as claimed): for the transform of the call and for the driver, for
\* every matrix attribute and every frame, 0 included, getMatrix returns the
\* host's matrix at that frame wherever the current-time cursor is (the
\* tool never calls it with the time unspecified); so the anchor the call
\* has sampled is the transform's world matrix at start.
C16_ExactTime ==
    pc # "idle" =>
       /\ \A node \in {transform} \cup ({driver} \ {None}),
             time \in Frames, matrixType \in MatrixTypes :
             getMatrix(curves, node, time, matrixType)
             = HostMatrix(curves, node, matrixType, time)
       /\ anchorMatrix = HostMatrix(curves0, transform, "worldMatrix", start)

\* C17 (as claimed): on a channel that had a curve with no key after start
\* when the call began, the key set at start has the in-tangent type
\* "linear"; on a channel that had a curve with no key before end, the key
\* set at end has the out-tangent type "linear".
C17_LinearDefault ==
    \A op \in Ops(log) :
       /\ (/\ op.t = start
           /\ curves0[op.node] # {}
           /\ \A k \in curves0[op.node] : k.t <= start)
          => op.itt = "linear"
       /\ (/\ op.t = end
           /\ curves0[op.node] # {}
           /\ \A k \in curves0[op.node] : k.t >= end)
          => op.ott = "linear"

\* The anchor and the driver's inverse held by the call are the transform's
\* world matrix and the driver's world-inverse matrix at frame start, and
\* every key set so far has the value computed from them for its frame.
C18_SampledAtStart ==
    pc # "idle" =>
       /\ anchorMatrix = HostMatrix(curves0, transform, "worldMatrix", start)
       /\ driverInverseMatrix =
             IF driver = None THEN Identity ELSE Inverse(driverWorld[start])
       /\ \A op \in Ops(log) :
             op.v = ValueOf(transformValues(curves0, driver,
                                            driverInverseMatrix, anchorMatrix,
                                            op.t), op.node)

\* No step of a call's loop changes the anchor or the driver's inverse, and
\* the step that samples them sets no key.
C18_KeptInLoop ==
    /\ pc = "loop" =>
          (anchorMatrix' = anchorMatrix
           /\ driverInverseMatrix' = driverInverseMatrix)
    /\ (pc # "loop" /\ pc' = "loop") => log' = <<>>

\* C18 (as claimed): in each anchorTransform call the transform's world
\* matrix and the driver's world-inverse matrix are sampled once, at the
\* start frame, before the first set-key operation; every frame's keys are
\* computed from those two values and no step of the loop changes them.
C18_AnchorCapturedOnce == []C18_SampledAtStart /\ [][C18_KeptInLoop]_vars

\* C19 (as claimed): in the legacy variant an anchorTransform call that has
\* set the keys of its range filters the curves of the rotate channels and
\* returns normally, and anchorSelection, unless a host call fails, goes on
\* to anchor every transform of its list.
C19_LegacyFiltersAndReturns ==
    variant = "legacy" =>
       /\ pc # "raised"
       /\ (pc = "done" /\ RotateCurveChannels # {}) => filterCalls # <<>>
       /\ (selPc \in {"returned", "raised"} /\ ~HostErrorSeen)
          => anchored = transforms

====
